---- MODULE Spec2Model ----
(***************************************************************************)
(* Model of flattenMIDI.py: the peak-concurrency analyzer, the voice       *)
(* allocator (splitPartIntoVoices) with its three strategies, the voice    *)
(* track encoder (createVoiceTrack) and the note extractor                 *)
(* (parseMidiNotes), driven as splitMidiPolyphonyToVoices drives them.     *)
(*                                                                         *)
(* A note is the tuple the orchestrator builds at line 173:                *)
(*   <<start, end, note, velocity, trackIndex>>                            *)
(* Python indexes from 0, TLA+ from 1: note[0] is note[1] here, voice      *)
(* index i of the code is voice i+1 here.                                  *)
(***************************************************************************)
EXTENDS Integers, Sequences, FiniteSets, TLC

\* ------------------------------------------------------------------ bounds
MaxTime == 2
MaxNotes == 3
MaxVoices == 2
MaxTogether == 25
MaxMessages == 4

\* (note, velocity, trackIndex) of the notes the inputs are drawn from; the
\* velocity of an extracted note is > 0 (parseMidiNotes, line 90).
NoteData == {<<60, 64, 0>>, <<72, 100, 1>>}

Strategies == {"balanced", "drop_excess", "first_fit"}

VARIABLES
    inTracks,            \* mid.tracks: the messages of each source track
    metaEvents,          \* extractMetaMessages: <<time, message>> pairs
    metaTrack,           \* createMetaTrack: the messages of the meta track
    parsed,              \* parseMidiNotes of each source track (line 171)
    notes,               \* allNotes after the sort of line 181
    maxVoices,           \* the voice count, requested and then effective
    strategy,
    autoOptimizeVoices,
    maxSimultaneous,     \* the analyzer's result for the input
    voices,              \* splitPartIntoVoices: the voice lists
    n,                   \* number of notes the for loop of line 18 has taken
    placed,              \* the flag of line 19 for the note taken last
    raisedWith,          \* the voice count named by the exception, or NoError
    tracks,              \* the voice tracks appended to newMid
    outNotes,            \* parseMidiNotes of each output track (line 204)
    pc

vars == <<inTracks, metaEvents, metaTrack, parsed,
          notes, maxVoices, strategy, autoOptimizeVoices, maxSimultaneous,
          voices, n, placed, raisedWith, tracks, outNotes, pc>>

\* What the source file gave: read before the allocation, never written after.
inputVars == <<inTracks, metaEvents, metaTrack, parsed>>

NoError == -1

\* ------------------------------------------------------------ small helpers
\* The larger of the two taken for the smaller.
MinAsMax(a, b) == IF a >= b THEN a ELSE b

Min(a, b) == IF a <= b THEN a ELSE b
Max(a, b) == IF a >= b THEN a ELSE b

Last(s) == s[Len(s)]

RECURSIVE SumLen(_)
SumLen(vs) == IF vs = <<>> THEN 0 ELSE Len(Head(vs)) + SumLen(Tail(vs))

\* Number of positions of seq holding x.
Count(x, seq) == Cardinality({i \in DOMAIN seq : seq[i] = x})

RECURSIVE CountInVoices(_, _)
CountInVoices(x, vs) ==
    IF vs = <<>> THEN 0 ELSE Count(x, Head(vs)) + CountInVoices(x, Tail(vs))

\* Python's order on the key tuples used here: pairs of integers.
KeyLess(a, b) == a[1] < b[1] \/ (a[1] = b[1] /\ a[2] < b[2])

\* list.sort(key=...): stable, ascending.  keys[i] is the key of seq[i]; the
\* result lists the positions of seq in sorted order.
InsertByKey(order, i, keys) ==
    LET later == {p \in DOMAIN order : KeyLess(keys[i], keys[order[p]])}
        pos   == IF later = {} THEN Len(order) + 1
                 ELSE CHOOSE p \in later : \A q \in later : p <= q
    IN  SubSeq(order, 1, pos - 1) \o <<i>> \o SubSeq(order, pos, Len(order))

RECURSIVE SortOrderFrom(_, _, _)
SortOrderFrom(keys, k, order) ==
    IF k > Len(keys) THEN order
    ELSE SortOrderFrom(keys, k + 1, InsertByKey(order, k, keys))

StableSort(seq, keys) ==
    LET order == SortOrderFrom(keys, 1, <<>>)
    IN  [p \in DOMAIN seq |-> seq[order[p]]]

\* ----------------------------------------------- analyzeAndPrintTrackInfo
\* Line 128: key = (x[0], x[1] == 'start'); a Python bool orders False < True.
KindKeyStartFirst(ev) == IF ev[2] = "start" THEN 0 ELSE 1

KindKey(ev) == IF ev[2] = "start" THEN 1 ELSE 0

EventKey(ev) == <<ev[1], KindKey(ev)>>

\* Lines 123-126: a start and an end event per note, in note order.
RECURSIVE NoteEvents(_)
NoteEvents(allNotes) ==
    IF allNotes = <<>> THEN <<>>
    ELSE <<<<Head(allNotes)[1], "start">>, <<Head(allNotes)[2], "end">>>>
         \o NoteEvents(Tail(allNotes))

\* Line 128.
SortedEvents(allNotes) ==
    LET events == NoteEvents(allNotes)
    IN  StableSort(events, [i \in DOMAIN events |-> EventKey(events[i])])

\* The running maximum taken before the increment instead of after it.
SweepStepMaxBeforeIncrement(ev, currentActive, maxSim) ==
    IF ev[2] = "start"
    THEN <<currentActive + 1, Max(maxSim, currentActive)>>
    ELSE <<currentActive - 1, maxSim>>

\* Lines 132-137: one event of the sweep; <<currentActive, maxSimultaneous>>.
SweepStep(ev, currentActive, maxSim) ==
    IF ev[2] = "start"
    THEN <<currentActive + 1, Max(maxSim, currentActive + 1)>>
    ELSE <<currentActive - 1, maxSim>>

RECURSIVE Sweep(_, _, _, _)
Sweep(events, k, currentActive, maxSim) ==
    IF k > Len(events) THEN maxSim
    ELSE LET r == SweepStep(events[k], currentActive, maxSim)
         IN  Sweep(events, k + 1, r[1], r[2])

\* Lines 121-144.
AnalyzePeak(allNotes) ==
    IF allNotes = <<>> THEN 0 ELSE Sweep(SortedEvents(allNotes), 1, 0, 0)

\* ---------------------------------------------------- splitPartIntoVoices
\* Compares with the start of the voice's last note instead of its end.
EligibleByStart(voice, startTime) ==
    voice = <<>> \/ startTime >= Last(voice)[1]

\* Lines 26, 36, 44: `not voice or startTime >= voice[-1][1]`.
Eligible(voice, startTime) ==
    voice = <<>> \/ startTime >= Last(voice)[2]

\* Lines 24-27.
AvailableVoices(vs, startTime) ==
    {i \in DOMAIN vs : Eligible(vs[i], startTime)}

LowestIndex(S) == CHOOSE i \in S : \A j \in S : i <= j

\* Fewest notes among all voices, eligible or not.
BestVoiceIdxAnyVoice(vs, available) ==
    CHOOSE i \in DOMAIN vs :
        \A j \in DOMAIN vs : Len(vs[i]) < Len(vs[j])
                             \/ (Len(vs[i]) = Len(vs[j]) /\ i <= j)

\* Line 30: min(availableVoices, key=len(voices[i])); min returns the first
\* minimal element and availableVoices is in index order.
BestVoiceIdx(vs, available) ==
    CHOOSE i \in available :
        \A j \in available : Len(vs[i]) < Len(vs[j])
                             \/ (Len(vs[i]) = Len(vs[j]) /\ i <= j)

\* The note put in front of the voice instead of at its end.
PrependTo(vs, i, note) == [vs EXCEPT ![i] = <<note>> \o @]

\* Lines 31, 37, 45: voice.append(note).
AppendTo(vs, i, note) == [vs EXCEPT ![i] = Append(@, note)]

\* Lines 23-32.
PlaceBalanced(vs, note) ==
    LET available == AvailableVoices(vs, note[1])
    IN  IF available # {}
        THEN [voices |-> AppendTo(vs, BestVoiceIdx(vs, available), note),
              placed |-> TRUE]
        ELSE [voices |-> vs, placed |-> FALSE]

\* The scan without its break: the note goes to every eligible voice.
PlaceFirstFitNoBreak(vs, note) ==
    LET available == AvailableVoices(vs, note[1])
    IN  [voices |-> [i \in DOMAIN vs |->
                        IF i \in available THEN Append(vs[i], note) ELSE vs[i]],
         placed |-> available # {}]

\* The scan taking the last eligible voice instead of the first.
PlaceFirstFitLast(vs, note) ==
    LET available == AvailableVoices(vs, note[1])
    IN  IF available # {}
        THEN [voices |-> AppendTo(vs, CHOOSE i \in available :
                                          \A j \in available : i >= j, note),
              placed |-> TRUE]
        ELSE [voices |-> vs, placed |-> FALSE]

\* Lines 42-47.
PlaceFirstFit(vs, note) ==
    LET available == AvailableVoices(vs, note[1])
    IN  IF available # {}
        THEN [voices |-> AppendTo(vs, LowestIndex(available), note),
              placed |-> TRUE]
        ELSE [voices |-> vs, placed |-> FALSE]

\* The drop_excess scan without its break.
PlaceDropExcessNoBreak(vs, note) ==
    [voices |-> PlaceFirstFitNoBreak(vs, note).voices, placed |-> TRUE]

\* The drop_excess scan taking the last eligible voice.
PlaceDropExcessLast(vs, note) ==
    [voices |-> PlaceFirstFitLast(vs, note).voices, placed |-> TRUE]

\* Lines 35-39: the scan of drop_excess from voice i on, up to its break.
RECURSIVE DropScanFrom(_, _, _)
DropScanFrom(vs, i, note) ==
    IF i > Len(vs) THEN vs
    ELSE IF Eligible(vs[i], note[1]) THEN AppendTo(vs, i, note)
    ELSE DropScanFrom(vs, i + 1, note)

\* Lines 34-40: the scan, then `placed = True` whatever it found.
PlaceDropExcess(vs, note) ==
    [voices |-> DropScanFrom(vs, 1, note), placed |-> TRUE]

\* Only first_fit raising: balanced carries on like drop_excess.
MustRaiseFirstFitOnly(wasPlaced, strat) == ~wasPlaced /\ strat = "first_fit"

\* Lines 49-53: `if not placed`, continue under drop_excess, raise otherwise.
MustRaise(wasPlaced, strat) == ~wasPlaced /\ strat # "drop_excess"

\* Line 55: the result is the voice lists alone; the notes that found no
\* voice are kept nowhere, so the result reports none.
ResultDropped == <<>>

\* Lines 18-47: one iteration of the loop up to the `if not placed`.
PlaceNote(vs, note, strat) ==
    CASE strat = "balanced"    -> PlaceBalanced(vs, note)
      [] strat = "drop_excess" -> PlaceDropExcess(vs, note)
      [] OTHER                 -> PlaceFirstFit(vs, note)

\* ------------------------------------------------------- createVoiceTrack
Message(type, note, velocity, time, channel) ==
    [type |-> type, note |-> note, velocity |-> velocity, time |-> time,
     channel |-> channel]

\* currentTime left at the note's start instead of its end.
TimeAfterNoteAtStart(start, end) == start

\* Line 109: currentTime = end.
TimeAfterNote(start, end) == end

\* Lines 104-109, from the k-th note on.
RECURSIVE VoiceTrackFrom(_, _, _, _)
VoiceTrackFrom(voiceNotes, k, currentTime, channel) ==
    IF k > Len(voiceNotes) THEN <<>>
    ELSE LET start    == voiceNotes[k][1]
             end      == voiceNotes[k][2]
             note     == voiceNotes[k][3]
             velocity == voiceNotes[k][4]
         IN  <<Message("note_on", note, velocity, start - currentTime, channel),
               Message("note_off", note, 0, end - start, channel)>>
             \o VoiceTrackFrom(voiceNotes, k + 1, TimeAfterNote(start, end), channel)

\* Lines 100-110.
CreateVoiceTrack(voiceNotes, channel) == VoiceTrackFrom(voiceNotes, 1, 0, channel)

\* Line 197.
VoiceNotesClean(voiceNotes) ==
    [k \in DOMAIN voiceNotes |->
        <<voiceNotes[k][1], voiceNotes[k][2], voiceNotes[k][3], voiceNotes[k][4]>>]

\* Lines 192-194: the channel for the next non-empty voice.
NextChannelCounter(channelCounter) ==
    IF channelCounter = 9 THEN 10 ELSE channelCounter

\* Lines 187-201, from voice k on: the voice tracks, in voice order.
RECURSIVE VoiceTracksFrom(_, _, _)
VoiceTracksFrom(vs, k, channelCounter) ==
    IF k > Len(vs) THEN <<>>
    ELSE IF vs[k] = <<>> THEN VoiceTracksFrom(vs, k + 1, channelCounter)
    ELSE LET c == NextChannelCounter(channelCounter)
         IN  <<CreateVoiceTrack(VoiceNotesClean(vs[k]), c % 16)>>
             \o VoiceTracksFrom(vs, k + 1, c + 1)

\* --------------------------------------------------------- parseMidiNotes
\* An end marker that is a note_off only.
EndsNoteOffOnly(msg) == msg.type = "note_off"

\* Line 90: the message opens its pitch.
Begins(msg) == msg.type = "note_on" /\ msg.velocity > 0

\* Line 92: the message is an end marker for its pitch.
Ends(msg) ==
    \/ msg.type = "note_off"
    \/ (msg.type = "note_on" /\ msg.velocity = 0)

\* Lines 88-95, from the k-th message on; ongoing maps an open pitch to
\* <<start, velocity>>.
RECURSIVE ParseFrom(_, _, _, _, _)
ParseFrom(track, k, currentTime, ongoing, acc) ==
    IF k > Len(track) THEN acc
    ELSE
      LET msg == track[k]
          t   == currentTime + msg.time
      IN  IF Begins(msg)
          THEN ParseFrom(track, k + 1, t,
                         [p \in DOMAIN ongoing \cup {msg.note} |->
                             IF p = msg.note THEN <<t, msg.velocity>> ELSE ongoing[p]],
                         acc)
          ELSE IF Ends(msg)
          THEN IF msg.note \in DOMAIN ongoing
               THEN ParseFrom(track, k + 1, t,
                              [p \in DOMAIN ongoing \ {msg.note} |-> ongoing[p]],
                              Append(acc, <<ongoing[msg.note][1], t, msg.note,
                                            ongoing[msg.note][2]>>))
               ELSE ParseFrom(track, k + 1, t, ongoing, acc)
          ELSE ParseFrom(track, k + 1, t, ongoing, acc)

\* Notes ordered by their end.
NoteSortKeyByEnd(x) == <<x[2], 0>>

\* Lines 97 and 181: key=lambda x: x[0].
NoteSortKey(x) == <<x[1], 0>>

\* Lines 82-98.
ParseMidiNotes(track) ==
    LET found == ParseFrom(track, 1, 0, <<>>, <<>>)
    IN  StableSort(found, [i \in DOMAIN found |-> NoteSortKey(found[i])])

\* ----------------------------------------------------- extractMetaMessages
\* The message kinds of mido.MetaMessage that the inputs use.
MetaTypes == {"set_tempo", "time_signature"}

MetaMessage(type, time) == [type |-> type, time |-> time]

\* Line 64: msg.is_meta.
IsMeta(msg) == msg.type \in MetaTypes

\* The clock advanced by control messages only.
AdvanceOnMetaOnly(currentTime, msg) ==
    IF IsMeta(msg) THEN currentTime + msg.time ELSE currentTime

\* Line 63: currentTime += msg.time, for every message.
Advance(currentTime, msg) == currentTime + msg.time

\* Lines 62-65 for one track, from the k-th message on.
RECURSIVE TrackMetaFrom(_, _, _)
TrackMetaFrom(track, k, currentTime) ==
    IF k > Len(track) THEN <<>>
    ELSE LET t == Advance(currentTime, track[k])
         IN  (IF IsMeta(track[k]) THEN <<<<t, track[k]>>>> ELSE <<>>)
             \o TrackMetaFrom(track, k + 1, t)

\* Lines 60-65: the tracks in index order, currentTime = 0 for each.
RECURSIVE AllMetaFrom(_, _)
AllMetaFrom(trs, i) ==
    IF i > Len(trs) THEN <<>>
    ELSE TrackMetaFrom(trs[i], 1, 0) \o AllMetaFrom(trs, i + 1)

\* Lines 57-68.
ExtractMetaMessages(trs) ==
    LET found == AllMetaFrom(trs, 1)
    IN  StableSort(found, [i \in DOMAIN found |-> <<found[i][1], 0>>])

\* ----------------------------------------------------------- createMetaTrack
\* The event's absolute time written as its delta.
MetaDeltaAbsolute(eventTime, currentTime) == eventTime

\* Line 75.
MetaDelta(eventTime, currentTime) == eventTime - currentTime

\* Lines 74-79, from the k-th event on.
RECURSIVE MetaTrackFrom(_, _, _)
MetaTrackFrom(events, k, currentTime) ==
    IF k > Len(events) THEN <<>>
    ELSE LET eventTime == events[k][1]
             msg       == events[k][2]
         IN  <<[msg EXCEPT !.time = MetaDelta(eventTime, currentTime)]>>
             \o MetaTrackFrom(events, k + 1, eventTime)

\* Lines 70-80.
CreateMetaTrack(events) == MetaTrackFrom(events, 1, 0)

\* ------------------------------------------------- the notes of all tracks
\* Lines 172-173: the notes of source track i (counted from 0), each with
\* the track index appended.
WithTrackIndex(trackNotes, i) ==
    [k \in DOMAIN trackNotes |->
        <<trackNotes[k][1], trackNotes[k][2], trackNotes[k][3],
          trackNotes[k][4], i>>]

\* Lines 169-174: allNotes before the sort.
RECURSIVE AllNotesFrom(_, _)
AllNotesFrom(perTrack, i) ==
    IF i > Len(perTrack) THEN <<>>
    ELSE WithTrackIndex(perTrack[i], i - 1) \o AllNotesFrom(perTrack, i + 1)

\* Lines 169-181.
SortedAllNotes(perTrack) ==
    LET found == AllNotesFrom(perTrack, 1)
    IN  StableSort(found, [i \in DOMAIN found |-> NoteSortKey(found[i])])

\* Lines 115-119: the notes of all tracks as the analyzer collects them.
RECURSIVE AnalyzerNotesFrom(_, _)
AnalyzerNotesFrom(trs, i) ==
    IF i > Len(trs) THEN <<>>
    ELSE ParseMidiNotes(trs[i]) \o AnalyzerNotesFrom(trs, i + 1)

\* ----------------------------------------------------------------- inputs
NoteSet ==
    {<<s, e, d[1], d[2], d[3]>> : s \in 0..MaxTime, e \in 0..MaxTime, d \in NoteData}

Intervals == {x \in NoteSet : x[1] <= x[2]}

SortedByStart(seq) ==
    \A i \in 1..(Len(seq) - 1) : seq[i][1] <= seq[i + 1][1]

NoteLists ==
    {seq \in UNION {[1..k -> Intervals] : k \in 0..MaxNotes} : SortedByStart(seq)}

\* The analyzer example of the specification: (0,5), (2,6), (5,9).
PeakExample ==
    <<<<0, 5, 60, 64, 0>>, <<2, 6, 72, 100, 1>>, <<5, 9, 60, 64, 0>>>>

\* Seven notes that bring three voices to 2, 1 and 3 notes, all three
\* eligible for the seventh.
BalancedExample ==
    <<<<0, 1, 60, 64, 0>>, <<0, 10, 72, 100, 1>>, <<1, 2, 60, 64, 0>>,
      <<2, 6, 60, 64, 0>>, <<2, 4, 72, 100, 1>>, <<4, 5, 72, 100, 1>>,
      <<10, 11, 60, 64, 0>>>>

Init ==
    /\ \/ /\ notes \in NoteLists
          /\ maxVoices \in 1..MaxVoices
       \/ /\ notes \in {PeakExample, BalancedExample}
          /\ maxVoices \in 1..3
    /\ strategy \in Strategies
    /\ autoOptimizeVoices \in BOOLEAN
    /\ maxSimultaneous = 0
    /\ inTracks = <<>>
    /\ metaEvents = <<>>
    /\ metaTrack = <<>>
    /\ parsed = <<>>
    /\ voices = <<>>
    /\ n = 0
    /\ placed = FALSE
    /\ raisedWith = NoError
    /\ tracks = <<>>
    /\ outNotes = <<>>
    /\ pc = "analyze"

\* ---------------------------------------------------------------- actions
\* Lines 153-158: the input analysis and the auto-tuned voice count.
Analyze ==
    /\ pc = "analyze"
    /\ maxSimultaneous' = AnalyzePeak(notes)
    /\ maxVoices' = IF autoOptimizeVoices /\ maxSimultaneous' > 0
                    THEN Min(maxSimultaneous', maxVoices)
                    ELSE maxVoices
    /\ pc' = "extract"
    /\ UNCHANGED <<notes, strategy, autoOptimizeVoices, voices, n, placed,
                   raisedWith, tracks, outNotes>>
    /\ UNCHANGED inputVars

\* Lines 176-179: no notes, the output is saved without any voice track.
NoNotes ==
    /\ pc = "extract"
    /\ notes = <<>>
    /\ pc' = "saved"
    /\ UNCHANGED <<notes, maxVoices, strategy, autoOptimizeVoices,
                   maxSimultaneous, voices, n, placed, raisedWith, tracks,
                   outNotes>>
    /\ UNCHANGED inputVars

\* Lines 185 and 16: the call, and the empty voice lists.
StartSplit ==
    /\ pc = "extract"
    /\ notes # <<>>
    /\ voices' = [i \in 1..maxVoices |-> <<>>]
    /\ pc' = "alloc"
    /\ UNCHANGED <<notes, maxVoices, strategy, autoOptimizeVoices,
                   maxSimultaneous, n, placed, raisedWith, tracks, outNotes>>
    /\ UNCHANGED inputVars

\* Lines 18-53: one iteration of the loop, the raise included.
ProcessNote ==
    /\ pc = "alloc"
    /\ n < Len(notes)
    /\ LET r == PlaceNote(voices, notes[n + 1], strategy)
       IN  /\ voices' = r.voices
           /\ placed' = r.placed
           /\ IF MustRaise(r.placed, strategy)
              THEN raisedWith' = maxVoices /\ pc' = "raised"
              ELSE raisedWith' = raisedWith /\ pc' = "alloc"
    /\ n' = n + 1
    /\ UNCHANGED <<notes, maxVoices, strategy, autoOptimizeVoices,
                   maxSimultaneous, tracks, outNotes>>
    /\ UNCHANGED inputVars

\* Line 55.
Return ==
    /\ pc = "alloc"
    /\ n = Len(notes)
    /\ pc' = "returned"
    /\ UNCHANGED <<notes, maxVoices, strategy, autoOptimizeVoices,
                   maxSimultaneous, voices, n, placed, raisedWith, tracks,
                   outNotes>>
    /\ UNCHANGED inputVars

\* Lines 187-201: a track per non-empty voice.
CreateVoiceTracks ==
    /\ pc = "returned"
    /\ tracks' = VoiceTracksFrom(voices, 1, 0)
    /\ pc' = "encoded"
    /\ UNCHANGED <<notes, maxVoices, strategy, autoOptimizeVoices,
                   maxSimultaneous, voices, n, placed, raisedWith, outNotes>>
    /\ UNCHANGED inputVars

\* Lines 203-206 (and 116-117): the output analysis parses every output track.
AnalyzeOutput ==
    /\ pc = "encoded"
    /\ outNotes' = [k \in DOMAIN tracks |-> ParseMidiNotes(tracks[k])]
    /\ pc' = "saved"
    /\ UNCHANGED <<notes, maxVoices, strategy, autoOptimizeVoices,
                   maxSimultaneous, voices, n, placed, raisedWith, tracks>>
    /\ UNCHANGED inputVars

Next ==
    \/ Analyze
    \/ NoNotes
    \/ StartSplit
    \/ ProcessNote
    \/ Return
    \/ CreateVoiceTracks
    \/ AnalyzeOutput

Spec == Init /\ [][Next]_vars

\* The same run on k notes that all sound together, for voice counts past
\* the sixteen MIDI channels.
SoundingTogether(k) == [i \in 1..k |-> <<0, 1, 60, 64, 0>>]

InitChannels ==
    /\ \E k \in 0..MaxTogether : notes = SoundingTogether(k)
    /\ maxVoices \in 1..MaxTogether
    /\ strategy \in Strategies
    /\ autoOptimizeVoices \in BOOLEAN
    /\ maxSimultaneous = 0
    /\ inTracks = <<>>
    /\ metaEvents = <<>>
    /\ metaTrack = <<>>
    /\ parsed = <<>>
    /\ voices = <<>>
    /\ n = 0
    /\ placed = FALSE
    /\ raisedWith = NoError
    /\ tracks = <<>>
    /\ outNotes = <<>>
    /\ pc = "analyze"

SpecChannels == InitChannels /\ [][Next]_vars

\* ------------------------------------------------- the run on a source file
\* Delta times of the source messages: MIDI delta times are never negative.
Deltas == {0, 1}

NoteOn(note, velocity, time) == Message("note_on", note, velocity, time, 0)

NoteOff(note, time) == Message("note_off", note, 64, time, 0)

\* One pitch opened, re-opened and ended by either kind of end marker.
LifecycleMessages ==
    UNION {{NoteOn(60, 64, d), NoteOn(60, 100, d), NoteOff(60, d),
            NoteOn(60, 0, d)} : d \in Deltas}

\* Two pitches in one track, and one of them again in a second track.
ChordMessages ==
    UNION {{NoteOn(60, 64, d), NoteOff(60, d), NoteOn(72, 100, d),
            NoteOff(72, d)} : d \in Deltas}

SecondTrackMessages == UNION {{NoteOn(72, 100, d), NoteOff(72, d)} : d \in Deltas}

\* Control messages between the messages of a note.
ControlMessages ==
    UNION {{MetaMessage("set_tempo", d), MetaMessage("time_signature", d)} :
              d \in Deltas}
    \cup {NoteOn(60, 64, 1), NoteOff(60, 1)}

\* inTracks is one track of at most MaxMessages messages of A.
OneTrackFile(A) ==
    \E i \in 0..MaxMessages : \E a \in [1..i -> A] : inTracks = <<a>>

\* inTracks is a track of A and a track of B, at most MaxMessages messages
\* together.
TwoTrackFile(A, B) ==
    \E i \in 0..MaxMessages : \E j \in 0..(MaxMessages - i) :
        \E a \in [1..i -> A] : \E b \in [1..j -> B] : inTracks = <<a, b>>

InputFile ==
    \/ OneTrackFile(LifecycleMessages)
    \/ TwoTrackFile(ChordMessages, SecondTrackMessages)
    \/ TwoTrackFile(ControlMessages, ControlMessages)

\* The state after MidiFile(inputFile), with the defaults of line 146.
InitExtract ==
    /\ InputFile
    /\ metaEvents = <<>>
    /\ metaTrack = <<>>
    /\ parsed = <<>>
    /\ notes = <<>>
    /\ maxVoices = MaxVoices
    /\ strategy = "balanced"
    /\ autoOptimizeVoices = TRUE
    /\ maxSimultaneous = 0
    /\ voices = <<>>
    /\ n = 0
    /\ placed = FALSE
    /\ raisedWith = NoError
    /\ tracks = <<>>
    /\ outNotes = <<>>
    /\ pc = "input"

\* Lines 153-158 on the source tracks.
AnalyzeInput ==
    /\ pc = "input"
    /\ maxSimultaneous' = AnalyzePeak(AnalyzerNotesFrom(inTracks, 1))
    /\ maxVoices' = IF autoOptimizeVoices /\ maxSimultaneous' > 0
                    THEN Min(maxSimultaneous', maxVoices)
                    ELSE maxVoices
    /\ pc' = "meta"
    /\ UNCHANGED <<notes, strategy, autoOptimizeVoices, voices, n, placed,
                   raisedWith, tracks, outNotes>>
    /\ UNCHANGED inputVars

\* Lines 160-167: the control events, and the meta track when there are any.
PreserveMeta ==
    /\ pc = "meta"
    /\ metaEvents' = ExtractMetaMessages(inTracks)
    /\ metaTrack' = IF metaEvents' # <<>> THEN CreateMetaTrack(metaEvents')
                    ELSE <<>>
    /\ pc' = "collect"
    /\ UNCHANGED <<inTracks, parsed, notes, maxVoices, strategy,
                   autoOptimizeVoices, maxSimultaneous, voices, n, placed,
                   raisedWith, tracks, outNotes>>

\* Lines 169-181: the notes of every track, merged and sorted.
CollectNotes ==
    /\ pc = "collect"
    /\ parsed' = [i \in DOMAIN inTracks |-> ParseMidiNotes(inTracks[i])]
    /\ notes' = SortedAllNotes(parsed')
    /\ pc' = "extract"
    /\ UNCHANGED <<inTracks, metaEvents, metaTrack, maxVoices, strategy,
                   autoOptimizeVoices, maxSimultaneous, voices, n, placed,
                   raisedWith, tracks, outNotes>>

NextExtract ==
    \/ AnalyzeInput
    \/ PreserveMeta
    \/ CollectNotes
    \/ NoNotes
    \/ StartSplit
    \/ ProcessNote
    \/ Return
    \/ CreateVoiceTracks
    \/ AnalyzeOutput

SpecExtract == InitExtract /\ [][NextExtract]_vars

\* Both families of runs: on given note lists and on source files.
InitWhole == Init \/ InitExtract

NextWhole ==
    \/ Analyze
    \/ AnalyzeInput
    \/ PreserveMeta
    \/ CollectNotes
    \/ NoNotes
    \/ StartSplit
    \/ ProcessNote
    \/ Return
    \/ CreateVoiceTracks
    \/ AnalyzeOutput

SpecWhole == InitWhole /\ [][NextWhole]_vars

\* ------------------------------------------------------------- properties
\* The placement rule as the specification words it: the voice is empty or
\* its last interval ends at or before the note's start.
MayTake(voice, note) == voice = <<>> \/ voice[Len(voice)][2] <= note[1]

TakersOf(note) == {i \in DOMAIN voices : MayTake(voices[i], note)}

Allocated == pc \in {"returned", "encoded", "saved"} /\ notes # <<>>

Processing == pc = "alloc" /\ n < Len(notes)

\* C1: at every point of the allocation and in the result, any two adjacent
\* intervals a, b of a voice satisfy a.end <= b.start.
C1_VoicesNonOverlapping ==
    \A i \in DOMAIN voices :
        \A k \in 1..(Len(voices[i]) - 1) : voices[i][k][2] <= voices[i][k + 1][1]

C1_Witness ==
    /\ pc = "returned"
    /\ \E i, j \in DOMAIN voices :
          /\ Len(voices[i]) >= 2
          /\ \A k \in DOMAIN voices[i] : voices[i][k][1] < voices[i][k][2]
          /\ voices[j] # <<>>
          /\ i # j

\* C2: with a voice count at least the analyzer's peak for the same notes,
\* the allocation never raises and leaves no note out of the voices.
C2_EnoughVoicesNeverFail ==
    (pc # "analyze" /\ maxVoices >= maxSimultaneous)
        => /\ pc # "raised"
           /\ Allocated => SumLen(voices) = Len(notes)

SomeOverlap ==
    \E i, j \in DOMAIN notes : i < j /\ notes[j][1] < notes[i][2]

C4_RaiseStep ==
    (Processing /\ strategy # "drop_excess")
        => /\ (pc' = "raised") <=> (TakersOf(notes[n + 1]) = {})
           /\ pc' = "raised" => (raisedWith' = Len(voices) /\ voices' = voices)
           /\ pc' # "raised" => raisedWith' = NoError

\* C4: under first_fit and balanced a step raises exactly when no voice may
\* take the note it reaches, the error names the voice count of the call,
\* nothing is processed after it, and one voice with two overlapping notes
\* always ends in the error.
C4_RaiseExactlyWhenNoVoice ==
    /\ [][C4_RaiseStep]_vars
    /\ [][pc # "raised"]_vars
    /\ [](pc = "raised" => raisedWith = maxVoices /\ SumLen(voices) < n)
    /\ []((Allocated /\ strategy # "drop_excess" /\ maxVoices = 1) => ~SomeOverlap)

C4_Witness ==
    /\ pc = "raised"
    /\ raisedWith = 2
    /\ n = 3
    /\ Len(notes) = 3

C5_DropStep ==
    (Processing /\ strategy = "drop_excess")
        => /\ pc' = "alloc"
           /\ n' = n + 1
           /\ (voices' = voices) <=> (TakersOf(notes[n + 1]) = {})
           /\ SumLen(voices') = SumLen(voices)
                                + (IF TakersOf(notes[n + 1]) = {} THEN 0 ELSE 1)

\* C5: drop_excess never raises; a step leaves its note out of the voices
\* exactly when no voice may take it, the loop goes on to every later note,
\* and one voice with two overlapping notes keeps the first and leaves out
\* the second.
C5_DropNeverRaises ==
    /\ [][C5_DropStep]_vars
    /\ [](strategy = "drop_excess" => (pc # "raised" /\ raisedWith = NoError))
    /\ []((pc = "returned" /\ strategy = "drop_excess") => n = Len(notes))
    /\ []((pc = "returned" /\ strategy = "drop_excess" /\ maxVoices = 1
           /\ Len(notes) = 2 /\ SomeOverlap) => voices = <<<<notes[1]>>>>)

C5_Witness ==
    /\ pc = "returned"
    /\ strategy = "drop_excess"
    /\ Len(notes) = 3
    /\ voices = <<<<notes[1], notes[3]>>>>

\* Largest number of notes whose span holds one instant t: with the end
\* instant counted (closed) and without it (half-open).
Instants ==
    {notes[k][1] : k \in DOMAIN notes} \cup {notes[k][2] : k \in DOMAIN notes}

ClosedPeak ==
    LET at(t) == Cardinality({k \in DOMAIN notes : notes[k][1] <= t /\ t <= notes[k][2]})
    IN  CHOOSE m \in 0..Len(notes) :
            /\ \A t \in Instants : at(t) <= m
            /\ m = 0 \/ \E t \in Instants : at(t) = m

HalfOpenPeak ==
    LET at(t) == Cardinality({k \in DOMAIN notes : notes[k][1] <= t /\ t < notes[k][2]})
    IN  CHOOSE m \in 0..Len(notes) :
            /\ \A t \in Instants : at(t) <= m
            /\ m = 0 \/ \E t \in Instants : at(t) = m

Analyzed == pc # "analyze"

\* C6 as stated: in the sorted sweep every enter at a tick comes before
\* every leave at that tick, so notes that touch at a tick count as
\* simultaneous there and the peak is the one over closed spans.
C6_EnterBeforeLeave ==
    Analyzed =>
        LET events == SortedEvents(notes)
        IN  /\ \A i, j \in DOMAIN events :
                  (i < j /\ events[i][1] = events[j][1])
                      => ~(events[i][2] = "end" /\ events[j][2] = "start")
            /\ maxSimultaneous = ClosedPeak

\* C6 amended: in the sorted sweep every leave at a tick comes before every
\* enter at that tick, so an interval ending exactly when another begins is
\* not counted as simultaneous with it: two such notes alone give a peak of 1.
C6_LeaveBeforeEnter ==
    Analyzed =>
        LET events == SortedEvents(notes)
        IN  /\ \A i, j \in DOMAIN events :
                  (i < j /\ events[i][1] = events[j][1])
                      => ~(events[i][2] = "start" /\ events[j][2] = "end")
            /\ (/\ Len(notes) = 2
                /\ notes[1][1] < notes[1][2]
                /\ notes[1][2] = notes[2][1]
                /\ notes[2][1] < notes[2][2]) => maxSimultaneous = 1

C6_Witness ==
    /\ Analyzed
    /\ Len(notes) = 2
    /\ notes[1][1] < notes[1][2]
    /\ notes[1][2] = notes[2][1]
    /\ notes[2][1] < notes[2][2]
    /\ maxSimultaneous = 1

\* C7: the analyzer returns the largest number of intervals active at one
\* instant (an interval is active from its start up to, not including, its
\* end), 0 for no intervals and 2 for (0,5), (2,6), (5,9).
C7_PeakIsMaxActive ==
    Analyzed =>
        /\ maxSimultaneous = HalfOpenPeak
        /\ notes = <<>> => maxSimultaneous = 0
        /\ notes = PeakExample => maxSimultaneous = 2

C7_Witness ==
    /\ Analyzed
    /\ notes = PeakExample
    /\ maxSimultaneous = 2

VoiceSizes == [i \in DOMAIN voices |-> Len(voices[i])]

C8_BalancedStep ==
    (Processing /\ strategy = "balanced" /\ TakersOf(notes[n + 1]) # {})
        => \E i \in TakersOf(notes[n + 1]) :
              /\ voices' = [voices EXCEPT ![i] = Append(@, notes[n + 1])]
              /\ \A j \in TakersOf(notes[n + 1]) :
                    \/ Len(voices[i]) < Len(voices[j])
                    \/ (Len(voices[i]) = Len(voices[j]) /\ i <= j)

\* C8: under balanced a placed note is appended to the voice that holds the
\* fewest notes among the voices that may take it, the lowest index among
\* equals; with sizes 2, 1, 3 and all three voices free it goes to the
\* second voice.
C8_BalancedFewestNotes ==
    /\ [][C8_BalancedStep]_vars
    /\ []((/\ strategy = "balanced"
           /\ notes = BalancedExample
           /\ n = 7
           /\ Len(voices) = 3) => VoiceSizes = <<2, 2, 3>>)

C8_Witness ==
    /\ strategy = "balanced"
    /\ notes = BalancedExample
    /\ pc = "returned"
    /\ VoiceSizes = <<2, 2, 3>>
    /\ voices[2] = <<notes[2], notes[7]>>
    /\ MayTake(voices[1], notes[7])
    /\ MayTake(voices[3], notes[7])

C9_FirstFitStep ==
    (Processing /\ strategy = "first_fit" /\ TakersOf(notes[n + 1]) # {})
        => \E i \in TakersOf(notes[n + 1]) :
              /\ voices' = [voices EXCEPT ![i] = Append(@, notes[n + 1])]
              /\ \A j \in 1..(i - 1) : ~MayTake(voices[j], notes[n + 1])

\* C9: under first_fit a placed note is appended to the lowest-index voice
\* that may take it: no voice below the chosen one could.
C9_FirstFitLowestIndex == [][C9_FirstFitStep]_vars

C9_Witness ==
    /\ strategy = "first_fit"
    /\ pc = "returned"
    /\ Len(voices) = 2
    /\ Len(notes) = 3
    /\ voices = <<<<notes[1], notes[3]>>, <<notes[2]>>>>
    /\ MayTake(<<notes[2]>>, notes[3])

\* The non-empty voices in voice order, each note as (start, end, note,
\* velocity).
RECURSIVE SoundingVoices(_)
SoundingVoices(vs) ==
    IF vs = <<>> THEN <<>>
    ELSE (IF Head(vs) = <<>> THEN <<>>
          ELSE <<[k \in DOMAIN Head(vs) |-> SubSeq(Head(vs)[k], 1, 4)]>>)
         \o SoundingVoices(Tail(vs))

\* C10: the notes extracted from the track written for a voice are the
\* voice's notes: the same start, end, pitch and velocity, in the same order.
C10_RoundTrip ==
    (pc = "saved" /\ notes # <<>>) => outNotes = SoundingVoices(voices)

C10_Witness ==
    /\ pc = "saved"
    /\ \E k \in DOMAIN outNotes :
          /\ Len(outNotes[k]) >= 2
          /\ outNotes[k][1][1] < outNotes[k][1][2]
          /\ outNotes[k][1][3] # outNotes[k][2][3]
          /\ outNotes[k][1][2] < outNotes[k][2][1]

\* C13: the voice count handed to the allocator is min(P, M) when
\* auto-tuning is on and the analyzer's peak P is positive, and the requested
\* count M otherwise.
C13_EffectiveVoiceCount ==
    /\ [][pc = "analyze" =>
            maxVoices' = IF autoOptimizeVoices /\ maxSimultaneous' > 0
                         THEN (IF maxSimultaneous' < maxVoices
                               THEN maxSimultaneous' ELSE maxVoices)
                         ELSE maxVoices]_vars
    /\ [][pc # "analyze" => maxVoices' = maxVoices]_vars
    /\ [](voices # <<>> => Len(voices) = maxVoices)

C13_Witness ==
    /\ pc = "returned"
    /\ autoOptimizeVoices
    /\ notes = PeakExample
    /\ maxSimultaneous = 2
    /\ Len(voices) = 2
    /\ raisedWith = NoError

IsPrefix(s, t) == Len(s) <= Len(t) /\ SubSeq(t, 1, Len(s)) = s

C15_AppendStep ==
    /\ Processing =>
          \/ voices' = voices
          \/ \E i \in DOMAIN voices :
                voices' = [voices EXCEPT ![i] = Append(@, notes[n + 1])]
    /\ voices # <<>> =>
          /\ DOMAIN voices' = DOMAIN voices
          /\ \A i \in DOMAIN voices : IsPrefix(voices[i], voices'[i])
    /\ ~Processing => (voices = <<>> \/ voices' = voices)

\* C15: a step of the allocation appends its note to the end of exactly one
\* voice or changes no voice, and every note placed earlier keeps its voice
\* and its index in it for the rest of the run.
C15_AppendOnly == [][C15_AppendStep]_vars

C15_Witness ==
    /\ pc = "returned"
    /\ strategy = "drop_excess"
    /\ Len(notes) = 3
    /\ voices = <<<<notes[1], notes[3]>>>>
    /\ notes[1][1] < notes[1][2]

ChannelsOf(track) == {track[k].channel : k \in DOMAIN track}

\* C16: no voice track is written on channel 9, however many voices sound.
C16_NoPercussionChannel ==
    \A t \in DOMAIN tracks : 9 \notin ChannelsOf(tracks[t])

\* The whole allocation of ns into count voices under strat: TRUE when it
\* returns with every note in a voice.
RECURSIVE PlacesAllFrom(_, _, _, _)
PlacesAllFrom(vs, ns, k, strat) ==
    IF k > Len(ns) THEN SumLen(vs) = Len(ns)
    ELSE LET r == PlaceNote(vs, ns[k], strat)
         IN  IF MustRaise(r.placed, strat) THEN FALSE
             ELSE PlacesAllFrom(r.voices, ns, k + 1, strat)

PlacesAll(ns, count, strat) ==
    PlacesAllFrom([i \in 1..count |-> <<>>], ns, 1, strat)

\* C17: when the run with the requested count M places every note, the run
\* with the auto-tuned count min(P, M) places every note too.
C17_AutoTuneNeverWorse ==
    (pc # "analyze" /\ autoOptimizeVoices /\ maxSimultaneous > 0)
        => \A M \in maxVoices..(MaxVoices + 1) :
              (/\ maxVoices = (IF maxSimultaneous < M THEN maxSimultaneous ELSE M)
               /\ PlacesAll(notes, M, strategy))
                  => /\ pc # "raised"
                     /\ Allocated => SumLen(voices) = Len(notes)

\* The first_fit run of the first upto notes of ns into count voices: the
\* voices it reaches and the note it raised at (0 when it raised at none).
RECURSIVE FirstFitRunFrom(_, _, _, _)
FirstFitRunFrom(vs, ns, k, upto) ==
    IF k > upto THEN [voices |-> vs, raisedAt |-> 0]
    ELSE LET r == PlaceFirstFit(vs, ns[k])
         IN  IF MustRaise(r.placed, "first_fit")
             THEN [voices |-> vs, raisedAt |-> k]
             ELSE FirstFitRunFrom(r.voices, ns, k + 1, upto)

FirstFitRun(ns, count, upto) ==
    FirstFitRunFrom([i \in 1..count |-> <<>>], ns, 1, upto)

\* C18: after each note, up to and including the first note no voice may
\* take, the voices of drop_excess are those of first_fit on the same input
\* and voice count; when first_fit returns, drop_excess returns the same
\* voices with every note in them.
C18_DropExcessAgreesWithFirstFit ==
    (strategy = "drop_excess" /\ pc \in {"alloc", "returned"})
        => LET ff == FirstFitRun(notes, Len(voices), n)
           IN  /\ (ff.raisedAt = 0 \/ ff.raisedAt = n) => voices = ff.voices
               /\ (pc = "returned" /\ ff.raisedAt = 0)
                     => SumLen(voices) = Len(notes)

C18_Witness ==
    /\ strategy = "drop_excess"
    /\ pc = "returned"
    /\ Len(notes) = 3
    /\ Len(voices) = 2
    /\ FirstFitRun(notes, 2, 3).raisedAt = 0
    /\ voices = <<<<notes[1], notes[3]>>, <<notes[2]>>>>

\* ------------------------------------------- properties of the extraction
\* The absolute time of the k-th message of a track: the sum of the delta
\* times up to and including it.
RECURSIVE AbsTime(_, _)
AbsTime(track, k) ==
    IF k = 0 THEN 0 ELSE AbsTime(track, k - 1) + track[k].time

IsNoteMessage(msg) == msg.type \in {"note_on", "note_off"}

IsBegin(msg) == msg.type = "note_on" /\ msg.velocity > 0

IsEndMarker(msg) ==
    msg.type = "note_off" \/ (msg.type = "note_on" /\ msg.velocity = 0)

\* The messages before the k-th that begin or end the pitch of the k-th.
TouchesBefore(track, k) ==
    {j \in 1..(k - 1) : IsNoteMessage(track[j]) /\ track[j].note = track[k].note}

MaxOf(S) == CHOOSE x \in S : \A y \in S : y <= x

\* The k-th message is an end marker that arrives while its pitch is open.
Closes(track, k) ==
    /\ IsEndMarker(track[k])
    /\ TouchesBefore(track, k) # {}
    /\ IsBegin(track[MaxOf(TouchesBefore(track, k))])

\* The interval that the closing k-th message ends.
IntervalAt(track, k) ==
    LET j == MaxOf(TouchesBefore(track, k))
    IN  <<AbsTime(track, j), AbsTime(track, k), track[k].note, track[j].velocity>>

\* The intervals of a track in the order of their end markers.
RECURSIVE EmittedFrom(_, _)
EmittedFrom(track, k) ==
    IF k > Len(track) THEN <<>>
    ELSE (IF Closes(track, k) THEN <<IntervalAt(track, k)>> ELSE <<>>)
         \o EmittedFrom(track, k + 1)

Emitted(track) == EmittedFrom(track, 1)

\* r holds the elements of e by first component ascending, elements with
\* equal first components in the order they have in e.
OrderedFrom(r, e) ==
    /\ Len(r) = Len(e)
    /\ \A k \in 1..(Len(r) - 1) : r[k][1] <= r[k + 1][1]
    /\ \A s \in {e[k][1] : k \in DOMAIN e} \cup {r[k][1] : k \in DOMAIN r} :
          SelectSeq(r, LAMBDA x : x[1] = s) = SelectSeq(e, LAMBDA x : x[1] = s)

Collected == pc \notin {"analyze", "input", "meta", "collect"} /\ inTracks # <<>>

\* C11: the notes of a single track and the merged notes handed to the
\* allocator are ordered by start ascending, and notes with equal start keep
\* the order of extraction: track index first, then the order in the track.
C11_SortedStable ==
    Collected =>
        /\ \A i \in DOMAIN parsed : OrderedFrom(parsed[i], Emitted(inTracks[i]))
        /\ OrderedFrom(notes, AllNotesFrom(parsed, 1))

C11_Witness ==
    /\ pc = "extract"
    /\ Len(notes) = 2
    /\ notes[1][1] = notes[2][1]
    /\ notes[1][5] = 0
    /\ notes[2][5] = 1
    /\ notes[1][2] > notes[2][2]

\* The control events of one track in track order, each with its absolute
\* time in the track.
RECURSIVE ControlEventsFrom(_, _)
ControlEventsFrom(track, k) ==
    IF k > Len(track) THEN <<>>
    ELSE (IF IsNoteMessage(track[k]) THEN <<>>
          ELSE <<<<AbsTime(track, k), track[k]>>>>)
         \o ControlEventsFrom(track, k + 1)

\* The control events of all tracks, track by track.
RECURSIVE ControlEventsOf(_)
ControlEventsOf(trs) ==
    IF trs = <<>> THEN <<>>
    ELSE ControlEventsFrom(Head(trs), 1) \o ControlEventsOf(Tail(trs))

MetaExtracted == pc \notin {"analyze", "input", "meta"} /\ inTracks # <<>>

\* C12: extractMetaMessages returns every control event of every source
\* track exactly once, with the sum of the delta times up to it in its own
\* track (other messages' deltas included), by time ascending; events with
\* equal time are ordered by track index, then by their order in the track.
C12_MetaEventsComplete ==
    MetaExtracted => OrderedFrom(metaEvents, ControlEventsOf(inTracks))

C12_Witness ==
    /\ pc = "collect"
    /\ inTracks = <<<<NoteOn(60, 64, 1), MetaMessage("set_tempo", 0)>>,
                    <<MetaMessage("time_signature", 1),
                      MetaMessage("set_tempo", 0)>>>>
    /\ metaEvents = <<<<1, MetaMessage("set_tempo", 0)>>,
                      <<1, MetaMessage("time_signature", 1)>>,
                      <<1, MetaMessage("set_tempo", 0)>>>>

\* The two sequences hold the same elements, each as often.
SameElements(a, b) ==
    /\ Len(a) = Len(b)
    /\ \A x \in {a[k] : k \in DOMAIN a} \cup {b[k] : k \in DOMAIN b} :
          Count(x, a) = Count(x, b)

\* C14: parseMidiNotes emits exactly one interval per end marker (note_off,
\* or note_on with velocity 0) that arrives while its pitch is open, with the
\* start and velocity of the most recent note_on of velocity > 0 for the
\* pitch and the end marker's time as end, start <= end; other end markers
\* and pitches left open emit nothing.
C14_OneIntervalPerClosingMarker ==
    Collected =>
        \A i \in DOMAIN parsed :
            /\ SameElements(parsed[i], Emitted(inTracks[i]))
            /\ \A k \in DOMAIN parsed[i] : parsed[i][k][1] <= parsed[i][k][2]

\* Begun, begun again, ended by a note_on of velocity 0, ended once more.
C14_Witness ==
    /\ pc = "extract"
    /\ inTracks = <<<<NoteOn(60, 64, 0), NoteOn(60, 100, 1), NoteOn(60, 0, 1),
                      NoteOff(60, 1)>>>>
    /\ parsed = <<<<<<1, 2, 60, 100>>>>>>

\* The absolute time the k-th message of a voice track stands for: the start
\* of a note for its note_on, the end for its note_off.
EventTimeOf(voiceNotes, k) ==
    IF k % 2 = 1 THEN voiceNotes[(k + 1) \div 2][1] ELSE voiceNotes[k \div 2][2]

\* C19: every delta time written by createVoiceTrack for a voice of the
\* allocator and by createMetaTrack for the output of extractMetaMessages is
\* >= 0, and the running sum of the deltas is each event's absolute time.
C19_DeltasRebuildTimes ==
    /\ \A t \in DOMAIN tracks :
          /\ Len(tracks[t]) = 2 * Len(SoundingVoices(voices)[t])
          /\ \A k \in DOMAIN tracks[t] :
                /\ tracks[t][k].time >= 0
                /\ AbsTime(tracks[t], k) = EventTimeOf(SoundingVoices(voices)[t], k)
    /\ MetaExtracted =>
          /\ Len(metaTrack) = Len(metaEvents)
          /\ \A k \in DOMAIN metaTrack :
                /\ metaTrack[k].time >= 0
                /\ AbsTime(metaTrack, k) = metaEvents[k][1]

C19_Witness ==
    /\ pc = "saved"
    /\ Len(metaTrack) = 2
    /\ metaEvents[1][1] = 1
    /\ metaTrack[2].time = 2
    /\ Len(tracks) = 1
    /\ tracks[1][1].time = 1
    /\ tracks[1][2].time = 1

====
